---- MODULE Spec2Model ----
(***************************************************************************)
(* Model of datmo's BaseController (datmo/controller/base.py): the lazy,   *)
(* settings-driven resolver of the drivers, the data-access layer, the     *)
(* model and session records and the is_initialized latch.                 *)
(*                                                                         *)
(* Python values are tagged records, so that None, strings, enum members,  *)
(* classes and objects can be compared with one another.  A method is an   *)
(* operator over a frame: the settings store, the Controller (self), the   *)
(* readiness flags of its drivers, the factory-invocation counters, the    *)
(* event trace of the running call, the raised exception and the return    *)
(* value.  A method is a chain of calls, each run on the frame the call    *)
(* before it left (Then); a frame with a pending exception ends the        *)
(* method, as a Python exception unwinds it.                               *)
(*                                                                         *)
(* last records the latest call (its arguments, result, exception and      *)
(* event trace); observed records what is_initialized last returned on     *)
(* each controller, looked whether a lookup of model_id on it has found    *)
(* nothing.  threads holds, for each thread reading a lazy property of a   *)
(* controller it shares with another thread, how far it got, the object    *)
(* it built and the value it returned.                                     *)
(***************************************************************************)
EXTENDS Integers, Sequences, FiniteSets, TLC

VARIABLES settings, ctrl, ready, invoked, fails, edits, observed, looked, last,
          threads

vars == <<settings, ctrl, ready, invoked, fails, edits, observed, looked, last,
          threads>>

-----------------------------------------------------------------------------
(* Bounds *)

\* factory or record-fetch failures the environment may inject in one run
MaxFailures == 1
\* hand edits of descriptor entries of the settings store in one run
MaxEdits == 1
\* invocations of the data-access-layer factory up to which dal_instantiate
\* is called directly
MaxInstantiations == 2

-----------------------------------------------------------------------------
(* Python values *)

None == [t |-> "None"]

Str(s) == [t |-> "str", v |-> s]

\* a member of the DriverType enum
DriverTypeMember(n) == [t |-> "DriverType", v |-> n]

\* names of the members of DriverType
DriverTypeNames == {"FILE", "MEMORY"}

\* DriverType[name]
DriverType(s) == DriverTypeMember(s.v)

False == [t |-> "bool", v |-> FALSE]

\* Python truthiness of the values the controller tests: None, "" and False
\* are falsy
Truthy(x) == x \notin {None, Str(""), False}

Controllers == {"A", "B"}

\* the threads that may use one controller at a time
Threads == {"T1", "T2"}

\* a thread that is not reading a property
Idle == [pc |-> "idle", prop |-> "", obj |-> None, ret |-> None]

\* the project directory and a path that is no directory
ProjectDir == "/proj"
NoDir == "/nodir"
Homes == {ProjectDir, NoDir}

\* os.path.isdir
isdir(path) == path = ProjectDir

\* os.path.join(home, ".datmo/database")
path_join(a, b) == Str(a \o "/" \o b)

DriverProps == {"code_driver", "environment_driver", "file_driver"}

\* the factories and record fetches whose invocations are counted
Factories == DriverProps \cup {"dal_driver", "dal", "model", "current_session"}

\* a storage driver handed to the constructor by the caller
SuppliedDriver(c) ==
  [t |-> "obj", cls |-> "SuppliedDALDriver", args |-> <<>>, id |-> <<c, "supplied", 0>>]

-----------------------------------------------------------------------------
(* The defaults table and the descriptors a user may store instead *)

ConfigKeys == {"controller.code.driver", "controller.file.driver",
               "controller.environment.driver", "storage.local",
               "storage.local.driver"}

IdKeys == {"model_id", "current_session_id"}

get_config_defaults(self) ==
  [k \in ConfigKeys |->
    CASE k = "controller.code.driver" ->
           [class_constructor |-> "datmo.controller.code.driver.git.GitCodeDriver",
            options |-> [filepath |-> Str(self.home), execpath |-> Str("git")]]
      [] k = "controller.file.driver" ->
           [class_constructor |-> "datmo.controller.file.driver.local.LocalFileDriver",
            options |-> [filepath |-> Str(self.home)]]
      [] k = "controller.environment.driver" ->
           [class_constructor |-> "datmo.controller.environment.driver.dockerenv.DockerEnvironmentDriver",
            options |-> [filepath |-> Str(self.home),
                         docker_execpath |-> Str("docker"),
                         docker_socket |-> Str("unix:///var/run/docker.sock")]]
      [] k = "storage.local" ->
           [class_constructor |-> "datmo.storage.local.dal.LocalDAL",
            options |-> [driver |-> Str("storage.local.driver")]]
      [] k = "storage.local.driver" ->
           [class_constructor |-> "datmo.storage.local.driver.blitzdb_driver.BlitzDBDALDriver",
            options |-> [driver_type |-> Str("FILE"),
                         connection_string |-> path_join(self.home, ".datmo/database")]]]

\* descriptors written into the store by hand, one per key
UserOverride ==
  [k \in ConfigKeys |->
    CASE k = "controller.code.driver" ->
           [class_constructor |-> "custom.code.HgCodeDriver",
            options |-> [filepath |-> Str(ProjectDir), execpath |-> Str("hg")]]
      [] k = "controller.file.driver" ->
           [class_constructor |-> "custom.file.RemoteFileDriver",
            options |-> [filepath |-> Str("/mnt/remote")]]
      [] k = "controller.environment.driver" ->
           [class_constructor |-> "custom.environment.PodmanEnvironmentDriver",
            options |-> [filepath |-> Str(ProjectDir),
                         docker_execpath |-> Str("podman"),
                         docker_socket |-> Str("unix:///run/podman.sock")]]
      [] k = "storage.local" ->
           [class_constructor |-> "custom.storage.RemoteDAL",
            options |-> [driver |-> Str("custom.placeholder")]]
      [] k = "storage.local.driver" ->
           [class_constructor |-> "datmo.storage.local.driver.blitzdb_driver.BlitzDBDALDriver",
            options |-> [driver_type |-> Str("MEMORY"),
                         connection_string |-> Str("")]]]

\* the Class Resolver: dotted identifier -> class
ClassTable ==
  [i \in {"datmo.controller.code.driver.git.GitCodeDriver",
          "datmo.controller.file.driver.local.LocalFileDriver",
          "datmo.controller.environment.driver.dockerenv.DockerEnvironmentDriver",
          "datmo.storage.local.dal.LocalDAL",
          "datmo.storage.local.driver.blitzdb_driver.BlitzDBDALDriver",
          "custom.code.HgCodeDriver", "custom.file.RemoteFileDriver",
          "custom.environment.PodmanEnvironmentDriver",
          "custom.storage.RemoteDAL"} |->
    CASE i = "datmo.controller.code.driver.git.GitCodeDriver" -> "GitCodeDriver"
      [] i = "datmo.controller.file.driver.local.LocalFileDriver" -> "LocalFileDriver"
      [] i = "datmo.controller.environment.driver.dockerenv.DockerEnvironmentDriver" -> "DockerEnvironmentDriver"
      [] i = "datmo.storage.local.dal.LocalDAL" -> "LocalDAL"
      [] i = "datmo.storage.local.driver.blitzdb_driver.BlitzDBDALDriver" -> "BlitzDBDALDriver"
      [] i = "custom.code.HgCodeDriver" -> "HgCodeDriver"
      [] i = "custom.file.RemoteFileDriver" -> "RemoteFileDriver"
      [] i = "custom.environment.PodmanEnvironmentDriver" -> "PodmanEnvironmentDriver"
      [] i = "custom.storage.RemoteDAL" -> "RemoteDAL"]

get_class_contructor(identifier) == [t |-> "class", name |-> ClassTable[identifier]]

-----------------------------------------------------------------------------
(* Frames and events *)

\* one step of a running call, as seen by the collaborators
Event(ev, key, val) == [ev |-> ev, key |-> key, val |-> val]

Emit(st, e) == [st EXCEPT !.trace = Append(@, e)]

Return(st, v) == [st EXCEPT !.ret = v]

Raise(st, name) ==
  [Emit(st, Event("raise", name, None)) EXCEPT !.exc = Str(name), !.ret = None]

Ok(st) == st.exc = None

\* ProjectSettings.get: the stored value, or None when the key has no entry
settings_get(st, key) ==
  LET v == IF key \in DOMAIN st.settings THEN st.settings[key] ELSE None
  IN  Return(Emit(st, Event("get", key, v)), v)

\* ProjectSettings.set: persist a copy of the value under the key
settings_set(st, key, value) ==
  LET s2 == [k \in (DOMAIN st.settings) \cup {key} |->
               IF k = key THEN value ELSE st.settings[k]]
  IN  [Emit(st, Event("set", key, value)) EXCEPT !.settings = s2, !.ret = None]

-----------------------------------------------------------------------------
(* Collaborators: factories and record fetches *)

\* a class called with **options: counted, and either raises or yields a
\* fresh object; the environment decides (st.failAt)
construct(st, slot, constructor, options) ==
  LET n  == st.invoked[slot] + 1
      s1 == [Emit(st, Event("call", slot, [constructor |-> constructor, options |-> options]))
               EXCEPT !.invoked[slot] = n]
  IN  IF st.failAt = slot
        THEN [Raise(s1, "ConstructionError") EXCEPT !.fails = @ + 1]
        ELSE Return(s1, [t |-> "obj", cls |-> constructor.name, args |-> options,
                         id |-> <<st.c, slot, n>>])

\* dal.<kind>.get_by_id(id): counted, and either raises or yields the record
get_by_id(st, kind, id) ==
  LET n  == st.invoked[kind] + 1
      s1 == [Emit(st, Event("fetch", kind, id)) EXCEPT !.invoked[kind] = n]
  IN  IF st.failAt = kind
        THEN [Raise(s1, "EntityNotFound") EXCEPT !.fails = @ + 1]
        ELSE Return(s1, [t |-> "record", kind |-> kind, id |-> id.v])

-----------------------------------------------------------------------------
(* BaseController *)

\* the rest of a method, F, run on the frame st that a call left behind;
\* a call that raised ends the method with its frame
Then(st, F(_)) == CHOOSE r \in {IF Ok(s) THEN F(s) ELSE s : s \in {st}} : TRUE

\* the attributes __init__ assigns before it validates home
NewController(home, dal_driver) ==
  [home |-> home, dal_driver |-> dal_driver,
   _dal |-> None, _model |-> None, _current_session |-> None,
   _code_driver |-> None, _file_driver |-> None, _environment_driver |-> None,
   _is_initialized |-> FALSE]

\* get_or_set_default as it would be if it set the default on every call
get_or_set_default_overwriting(st, key, default_value) ==
  Then(settings_get(st, key), LAMBDA s1 :
    Return(settings_set(s1, key, default_value), default_value))

\* get_or_set_default as it would be if it returned the default without
\* storing it
get_or_set_default_not_storing(st, key, default_value) ==
  Then(settings_get(st, key), LAMBDA s1 :
    IF s1.ret = None
      THEN Return(s1, default_value)
      ELSE s1)

get_or_set_default(st, key, default_value) ==
  Then(settings_get(st, key), LAMBDA s1 :
    IF s1.ret = None
      THEN Return(settings_set(s1, key, default_value), default_value)
      ELSE s1)

\* config_loader as it would be if a key missing from the defaults table
\* went through get_or_set_default, with no default, before the call fails
config_loader_defaulting_unknown(st, key) ==
  LET defaults == get_config_defaults(st.self)
  IN  IF key \notin DOMAIN defaults
        THEN Then(get_or_set_default(st, key, None), LAMBDA s1 : Raise(s1, "KeyError"))
        ELSE Then(get_or_set_default(st, key, defaults[key]), LAMBDA s1 :
               LET module_details == s1.ret
                   constructor == get_class_contructor(module_details.class_constructor)
               IN  Return(Emit(s1, Event("resolve", module_details.class_constructor, constructor)),
                          [class_constructor |-> module_details.class_constructor,
                           options |-> module_details.options,
                           constructor |-> constructor]))

\* config_loader as it would be if it resolved the identifier of the defaults
\* table instead of the one of the descriptor in use
config_loader_resolving_default(st, key) ==
  LET defaults == get_config_defaults(st.self)
  IN  IF key \notin DOMAIN defaults
        THEN Raise(st, "KeyError")
        ELSE Then(get_or_set_default(st, key, defaults[key]), LAMBDA s1 :
               LET module_details == s1.ret
                   constructor == get_class_contructor(defaults[key].class_constructor)
               IN  Return(Emit(s1, Event("resolve", defaults[key].class_constructor, constructor)),
                          [class_constructor |-> module_details.class_constructor,
                           options |-> module_details.options,
                           constructor |-> constructor]))

config_loader(st, key) ==
  LET defaults == get_config_defaults(st.self)
  IN  IF key \notin DOMAIN defaults
        THEN Raise(st, "KeyError")
        ELSE Then(get_or_set_default(st, key, defaults[key]), LAMBDA s1 :
               LET module_details == s1.ret
                   constructor == get_class_contructor(module_details.class_constructor)
               IN  Return(Emit(s1, Event("resolve", module_details.class_constructor, constructor)),
                          [class_constructor |-> module_details.class_constructor,
                           options |-> module_details.options,
                           constructor |-> constructor]))

\* the first half of dal_instantiate as it would be without the translation
\* of driver_type: the options go to the storage-driver factory as stored
load_driver_verbatim(st) ==
  IF ~Truthy(st.self.dal_driver)
    THEN Then(config_loader(st, "storage.local.driver"), LAMBDA s1 :
           Then(construct(s1, "dal_driver", s1.ret.constructor, s1.ret.options),
                LAMBDA s2 : [s2 EXCEPT !.self.dal_driver = s2.ret]))
    ELSE st

\* the first half of dal_instantiate: load the storage driver unless the
\* controller holds one
load_driver(st) ==
  IF ~Truthy(st.self.dal_driver)
    THEN Then(config_loader(st, "storage.local.driver"), LAMBDA s1 :
           LET dal_driver_dict == s1.ret
               driver_type == dal_driver_dict.options.driver_type
               isString == driver_type.t = "str"
           IN  IF isString /\ driver_type.v \notin DriverTypeNames
                 THEN Raise(s1, "KeyError")
                 ELSE Then(construct(s1, "dal_driver", dal_driver_dict.constructor,
                                     IF isString
                                       THEN [dal_driver_dict.options EXCEPT
                                               !.driver_type = DriverType(driver_type)]
                                       ELSE dal_driver_dict.options),
                           LAMBDA s2 : [s2 EXCEPT !.self.dal_driver = s2.ret]))
    ELSE st

\* dal_instantiate as a single-stage resolver would do it: the data-access
\* layer is built from the options of its descriptor as they are
dal_instantiate_single_stage(st) ==
  Then(load_driver(st), LAMBDA s1 :
    Then(config_loader(s1, "storage.local"), LAMBDA s2 :
      construct(s2, "dal", s2.ret.constructor, s2.ret.options)))

dal_instantiate(st) ==
  Then(load_driver(st), LAMBDA s1 :
    Then(config_loader(s1, "storage.local"), LAMBDA s2 :
      construct(s2, "dal", s2.ret.constructor,
                [s2.ret.options EXCEPT !.driver = s2.self.dal_driver])))

dal(st) ==
  IF st.self._dal = None
    THEN Then(dal_instantiate(st), LAMBDA s1 : [s1 EXCEPT !.self._dal = s1.ret])
    ELSE Return(st, st.self._dal)

\* model as it would be if it took the data-access layer before it tests
\* model_id
model_taking_dal_first(st) ==
  IF st.self._model = None
    THEN Then(settings_get(st, "model_id"), LAMBDA s1 :
           Then(dal(s1), LAMBDA s2 :
             IF Truthy(s1.ret)
               THEN Then(get_by_id(s2, "model", s1.ret), LAMBDA s3 :
                      [s3 EXCEPT !.self._model = s3.ret])
               ELSE Return([s2 EXCEPT !.self._model = None], None)))
    ELSE Return(st, st.self._model)

\* model as it would be if the outcome "no model" were cached too, under a
\* marker of its own
model_caching_absence(st) ==
  IF st.self._model = None
    THEN Then(settings_get(st, "model_id"), LAMBDA s1 :
           IF Truthy(s1.ret)
             THEN Then(dal(s1), LAMBDA s2 :
                    Then(get_by_id(s2, "model", s1.ret), LAMBDA s3 :
                      [s3 EXCEPT !.self._model = s3.ret]))
             ELSE Return([s1 EXCEPT !.self._model = False], None))
    ELSE Return(st, IF st.self._model = False THEN None ELSE st.self._model)

model(st) ==
  IF st.self._model = None
    THEN Then(settings_get(st, "model_id"), LAMBDA s1 :
           IF Truthy(s1.ret)
             THEN Then(dal(s1), LAMBDA s2 :
                    Then(get_by_id(s2, "model", s1.ret), LAMBDA s3 :
                      [s3 EXCEPT !.self._model = s3.ret]))
             ELSE Return([s1 EXCEPT !.self._model = None], None))
    ELSE Return(st, st.self._model)

\* the second half of current_session: the lookup of the session
lookup_session(st) ==
  IF st.self._current_session = None
    THEN Then(settings_get(st, "current_session_id"), LAMBDA s1 :
           IF Truthy(s1.ret)
             THEN Then(dal(s1), LAMBDA s2 :
                    Then(get_by_id(s2, "current_session", s1.ret), LAMBDA s3 :
                      [s3 EXCEPT !.self._current_session = s3.ret]))
             ELSE Return([s1 EXCEPT !.self._current_session = None], None))
    ELSE Return(st, st.self._current_session)

\* current_session as it would be without the check of the model
current_session_unchecked(st) ==
  Then(model(st), LAMBDA s0 : lookup_session(s0))

current_session(st) ==
  Then(model(st), LAMBDA s0 :
    IF ~Truthy(s0.ret)
      THEN Raise(s0, "DatmoModelNotInitializedException")
      ELSE lookup_session(s0))

\* code_driver as it would be if it called the factory a second time when
\* the first call raises
code_driver_retrying(st) ==
  IF st.self._code_driver = None
    THEN Then(config_loader(st, "controller.code.driver"), LAMBDA s1 :
           LET first == construct(s1, "code_driver", s1.ret.constructor, s1.ret.options)
               again == [first EXCEPT !.exc = None, !.ret = s1.ret]
           IN  IF Ok(first)
                 THEN [first EXCEPT !.self._code_driver = first.ret]
                 ELSE Then(construct(again, "code_driver", s1.ret.constructor, s1.ret.options),
                           LAMBDA s2 : [s2 EXCEPT !.self._code_driver = s2.ret]))
    ELSE Return(st, st.self._code_driver)

\* code_driver as it would be without the test of the cache slot
code_driver_uncached(st) ==
  Then(config_loader(st, "controller.code.driver"), LAMBDA s1 :
    Then(construct(s1, "code_driver", s1.ret.constructor, s1.ret.options), LAMBDA s2 :
      [s2 EXCEPT !.self._code_driver = s2.ret]))

code_driver(st) ==
  IF st.self._code_driver = None
    THEN Then(config_loader(st, "controller.code.driver"), LAMBDA s1 :
           Then(construct(s1, "code_driver", s1.ret.constructor, s1.ret.options), LAMBDA s2 :
             [s2 EXCEPT !.self._code_driver = s2.ret]))
    ELSE Return(st, st.self._code_driver)

file_driver(st) ==
  IF st.self._file_driver = None
    THEN Then(config_loader(st, "controller.file.driver"), LAMBDA s1 :
           Then(construct(s1, "file_driver", s1.ret.constructor, s1.ret.options), LAMBDA s2 :
             [s2 EXCEPT !.self._file_driver = s2.ret]))
    ELSE Return(st, st.self._file_driver)

\* environment_driver as it would be if it loaded the descriptor of the code
\* driver
environment_driver_on_code_descriptor(st) ==
  IF st.self._environment_driver = None
    THEN Then(config_loader(st, "controller.code.driver"), LAMBDA s1 :
           Then(construct(s1, "environment_driver", s1.ret.constructor, s1.ret.options), LAMBDA s2 :
             [s2 EXCEPT !.self._environment_driver = s2.ret]))
    ELSE Return(st, st.self._environment_driver)

environment_driver(st) ==
  IF st.self._environment_driver = None
    THEN Then(config_loader(st, "controller.environment.driver"), LAMBDA s1 :
           Then(construct(s1, "environment_driver", s1.ret.constructor, s1.ret.options), LAMBDA s2 :
             [s2 EXCEPT !.self._environment_driver = s2.ret]))
    ELSE Return(st, st.self._environment_driver)

\* <driver>.is_initialized of the driver a property read returned: what the
\* project's state makes that driver report at this moment
reports(st, slot) == st.ready[slot]

\* `return self._is_initialized`
return_latch(st) == Return(st, st.self._is_initialized)

\* is_initialized as it would be if it read the three drivers before it
\* tests what they report
is_initialized_reading_all_drivers(st) ==
  IF ~st.self._is_initialized
    THEN Then(code_driver(st), LAMBDA s1 :
           Then(environment_driver(s1), LAMBDA s2 :
             Then(file_driver(s2), LAMBDA s3 :
               IF ~(reports(s3, "code_driver") /\ reports(s3, "environment_driver")
                      /\ reports(s3, "file_driver"))
                 THEN return_latch(s3)
                 ELSE Then(model(s3), LAMBDA s4 :
                   IF Truthy(s4.ret)
                     THEN return_latch([s4 EXCEPT !.self._is_initialized = TRUE])
                     ELSE return_latch(s4)))))
    ELSE return_latch(st)

\* is_initialized as it would be if it assigned the outcome of the checks on
\* every read instead of latching
is_initialized_recomputed(st) ==
  return_latch(
    Then(code_driver([st EXCEPT !.self._is_initialized = FALSE]), LAMBDA s1 :
      IF ~reports(s1, "code_driver") THEN s1
      ELSE Then(environment_driver(s1), LAMBDA s2 :
        IF ~reports(s2, "environment_driver") THEN s2
        ELSE Then(file_driver(s2), LAMBDA s3 :
          IF ~reports(s3, "file_driver") THEN s3
          ELSE Then(model(s3), LAMBDA s4 :
            IF Truthy(s4.ret)
              THEN [s4 EXCEPT !.self._is_initialized = TRUE]
              ELSE s4)))))

\* is_initialized as it would be if the file driver were left out of the checks
is_initialized_without_file_driver(st) ==
  IF ~st.self._is_initialized
    THEN Then(code_driver(st), LAMBDA s1 :
           IF ~reports(s1, "code_driver") THEN return_latch(s1)
           ELSE Then(environment_driver(s1), LAMBDA s2 :
             IF ~reports(s2, "environment_driver") THEN return_latch(s2)
             ELSE Then(model(s2), LAMBDA s4 :
               IF Truthy(s4.ret)
                 THEN return_latch([s4 EXCEPT !.self._is_initialized = TRUE])
                 ELSE return_latch(s4))))
    ELSE return_latch(st)

\* is_initialized as it would be if it tested the cache slot _model instead
\* of reading the model property
is_initialized_on_cached_model(st) ==
  IF ~st.self._is_initialized
    THEN Then(code_driver(st), LAMBDA s1 :
           IF ~reports(s1, "code_driver") THEN return_latch(s1)
           ELSE Then(environment_driver(s1), LAMBDA s2 :
             IF ~reports(s2, "environment_driver") THEN return_latch(s2)
             ELSE Then(file_driver(s2), LAMBDA s3 :
               IF ~reports(s3, "file_driver") THEN return_latch(s3)
               ELSE IF Truthy(s3.self._model)
                 THEN return_latch([s3 EXCEPT !.self._is_initialized = TRUE])
                 ELSE return_latch(s3))))
    ELSE return_latch(st)

is_initialized(st) ==
  IF ~st.self._is_initialized
    THEN Then(code_driver(st), LAMBDA s1 :
           IF ~reports(s1, "code_driver") THEN return_latch(s1)
           ELSE Then(environment_driver(s1), LAMBDA s2 :
             IF ~reports(s2, "environment_driver") THEN return_latch(s2)
             ELSE Then(file_driver(s2), LAMBDA s3 :
               IF ~reports(s3, "file_driver") THEN return_latch(s3)
               ELSE Then(model(s3), LAMBDA s4 :
                 IF Truthy(s4.ret)
                   THEN return_latch([s4 EXCEPT !.self._is_initialized = TRUE])
                   ELSE return_latch(s4)))))
    ELSE return_latch(st)

-----------------------------------------------------------------------------
(* The state machine *)

\* the factories and fetches the environment may make raise during a call
\* that can reach the factories of fs: none of them, or one while the run's
\* failures are not used up
FailChoices(fs) == {"none"} \cup (IF fails < MaxFailures THEN fs ELSE {})

DalFactories == {"dal_driver", "dal"}

Frame(c, failAt) ==
  [c |-> c, settings |-> settings, self |-> ctrl[c], ready |-> ready[c],
   invoked |-> invoked[c], fails |-> fails, failAt |-> failAt,
   trace |-> <<>>, exc |-> None, ret |-> None]

\* CommitWith as it would be if the cache attributes belonged to the class:
\* what a call leaves in one controller shows in every controller
CommitWith_shared_cache(op, c, arg, st, e) ==
  /\ settings' = st.settings
  /\ ctrl' = [d \in Controllers |->
                IF ctrl[d] = None THEN None
                ELSE [st.self EXCEPT !.home = ctrl[d].home]]
  /\ ready' = [ready EXCEPT ![c] = st.ready]
  /\ invoked' = [invoked EXCEPT ![c] = st.invoked]
  /\ fails' = st.fails
  /\ edits' = e
  /\ observed' = IF op = "is_initialized" /\ Ok(st)
                   THEN [observed EXCEPT ![c] = IF st.ret THEN "true" ELSE "false"]
                   ELSE observed
  /\ last' = [op |-> op, c |-> c, arg |-> arg, ret |-> st.ret, exc |-> st.exc,
              trace |-> st.trace, latched |-> ctrl[c]._is_initialized,
              seen |-> observed[c], looked |-> looked[c]]
  /\ looked' = [looked EXCEPT ![c] =
                  @ \/ \E i \in 1..Len(st.trace) :
                         st.trace[i] = Event("get", "model_id", None)]
  /\ threads' = threads

\* the state a call leaves behind, whether it returned or raised
CommitWith(op, c, arg, st, e) ==
  /\ settings' = st.settings
  /\ ctrl' = [ctrl EXCEPT ![c] = st.self]
  /\ ready' = [ready EXCEPT ![c] = st.ready]
  /\ invoked' = [invoked EXCEPT ![c] = st.invoked]
  /\ fails' = st.fails
  /\ edits' = e
  /\ observed' = IF op = "is_initialized" /\ Ok(st)
                   THEN [observed EXCEPT ![c] = IF st.ret THEN "true" ELSE "false"]
                   ELSE observed
  /\ last' = [op |-> op, c |-> c, arg |-> arg, ret |-> st.ret, exc |-> st.exc,
              trace |-> st.trace, latched |-> ctrl[c]._is_initialized,
              seen |-> observed[c], looked |-> looked[c]]
  /\ looked' = [looked EXCEPT ![c] =
                  @ \/ \E i \in 1..Len(st.trace) :
                         st.trace[i] = Event("get", "model_id", None)]
  /\ threads' = threads

Commit(op, c, arg, st) == CommitWith(op, c, arg, st, edits)

Init ==
  /\ settings = [k \in {} |-> None]
  /\ ctrl = [c \in Controllers |-> None]
  /\ ready = [c \in Controllers |-> [p \in DriverProps |-> FALSE]]
  /\ invoked = [c \in Controllers |-> [f \in Factories |-> 0]]
  /\ fails = 0
  /\ edits = 0
  /\ observed = [c \in Controllers |-> "never"]
  /\ looked = [c \in Controllers |-> FALSE]
  /\ last = [op |-> "init", c |-> "", arg |-> None, ret |-> None, exc |-> None,
             trace |-> <<>>, latched |-> FALSE, seen |-> "never", looked |-> FALSE]
  /\ threads = [t \in Threads |-> Idle]

\* __init__ as it would be without the check of home
New_unvalidated(c, home, dal_driver) ==
  /\ ctrl[c] = None
  /\ ctrl' = [ctrl EXCEPT ![c] = NewController(home, dal_driver)]
  /\ last' = [op |-> "__init__", c |-> c, arg |-> [home |-> home, dal_driver |-> dal_driver],
              ret |-> None, exc |-> None, trace |-> <<Event("open", home, None)>>,
              latched |-> FALSE, seen |-> "never", looked |-> FALSE]
  /\ UNCHANGED <<settings, ready, invoked, fails, edits, observed, looked, threads>>

\* BaseController(home, dal_driver): the instance exists only if __init__ returns
New(c, home, dal_driver) ==
  /\ ctrl[c] = None
  /\ LET self == NewController(home, dal_driver)
         ok == isdir(self.home)
     IN  /\ ctrl' = [ctrl EXCEPT ![c] = IF ok THEN self ELSE None]
         /\ last' = [op |-> "__init__", c |-> c, arg |-> [home |-> home, dal_driver |-> dal_driver],
                     ret |-> None,
                     exc |-> IF ok THEN None ELSE Str("InvalidProjectPathException"),
                     trace |-> IF ok THEN <<Event("open", home, None)>>
                                     ELSE <<Event("raise", "InvalidProjectPathException", None)>>,
                     latched |-> FALSE, seen |-> "never", looked |-> FALSE]
  /\ UNCHANGED <<settings, ready, invoked, fails, edits, observed, looked, threads>>

ReadDal(c, failAt) ==
  /\ ctrl[c] # None
  /\ failAt \in FailChoices(DalFactories)
  /\ Commit("dal", c, None, dal(Frame(c, failAt)))

ReadModel(c, failAt) ==
  /\ ctrl[c] # None
  /\ failAt \in FailChoices(DalFactories \cup {"model"})
  /\ Commit("model", c, None, model(Frame(c, failAt)))

ReadCurrentSession(c, failAt) ==
  /\ ctrl[c] # None
  /\ failAt \in FailChoices(DalFactories \cup {"model", "current_session"})
  /\ Commit("current_session", c, None, current_session(Frame(c, failAt)))

ReadCodeDriver(c, failAt) ==
  /\ ctrl[c] # None
  /\ failAt \in FailChoices({"code_driver"})
  /\ Commit("code_driver", c, None, code_driver(Frame(c, failAt)))

ReadFileDriver(c, failAt) ==
  /\ ctrl[c] # None
  /\ failAt \in FailChoices({"file_driver"})
  /\ Commit("file_driver", c, None, file_driver(Frame(c, failAt)))

ReadEnvironmentDriver(c, failAt) ==
  /\ ctrl[c] # None
  /\ failAt \in FailChoices({"environment_driver"})
  /\ Commit("environment_driver", c, None, environment_driver(Frame(c, failAt)))

ReadIsInitialized(c, failAt) ==
  /\ ctrl[c] # None
  /\ failAt \in FailChoices(DriverProps \cup DalFactories \cup {"model"})
  /\ Commit("is_initialized", c, None, is_initialized(Frame(c, failAt)))

\* the values a run stores only MaxEdits times: the users' own descriptors
\* and ids passed as a default
CustomValues == {UserOverride[k] : k \in ConfigKeys} \cup {Str("m0")}

\* dal_instantiate called by the user of the controller: the data-access
\* layer it returns is not cached
CallDalInstantiate(c, failAt) ==
  /\ ctrl[c] # None
  /\ invoked[c]["dal"] < MaxInstantiations
  /\ failAt \in FailChoices(DalFactories)
  /\ Commit("dal_instantiate", c, None, dal_instantiate(Frame(c, failAt)))

\* the defaults a caller of get_or_set_default may pass for a key
DefaultsFor(c, key) ==
  IF ctrl[c] = None THEN {}
  ELSE IF key \in ConfigKeys
    THEN {get_config_defaults(ctrl[c])[key], UserOverride[key]}
    ELSE {Str("m0")}

CallGetOrSetDefault(c, key, default_value) ==
  /\ ctrl[c] # None
  /\ default_value \in DefaultsFor(c, key)
  /\ LET custom == key \notin DOMAIN settings /\ default_value \in CustomValues
     IN  /\ custom => edits < MaxEdits
         /\ CommitWith("get_or_set_default", c,
                       [key |-> key, default_value |-> default_value],
                       get_or_set_default(Frame(c, "none"), key, default_value),
                       IF custom THEN edits + 1 ELSE edits)

CallConfigLoader(c, key) ==
  /\ ctrl[c] # None
  /\ Commit("config_loader", c, [key |-> key], config_loader(Frame(c, "none"), key))

(* The environment of the controller *)

EnvLast(op, key) ==
  [op |-> op, c |-> "", arg |-> [key |-> key], ret |-> None, exc |-> None,
   trace |-> <<>>, latched |-> FALSE, seen |-> "never", looked |-> FALSE]

\* the user (or another component) stores a model or session id
SetId(key, id) ==
  /\ settings' = [k \in (DOMAIN settings) \cup {key} |->
                    IF k = key THEN Str(id) ELSE settings[k]]
  /\ last' = EnvLast("set_id", key)
  /\ UNCHANGED <<ctrl, ready, invoked, fails, edits, observed, looked, threads>>

\* the id is removed from the settings store
RemoveId(key) ==
  /\ key \in DOMAIN settings
  /\ settings' = [k \in (DOMAIN settings) \ {key} |-> settings[k]]
  /\ last' = EnvLast("remove_id", key)
  /\ UNCHANGED <<ctrl, ready, invoked, fails, edits, observed, looked, threads>>

\* the user writes a descriptor of their own into the settings store
EditDescriptor(key) ==
  /\ edits < MaxEdits
  /\ edits' = edits + 1
  /\ settings' = [k \in (DOMAIN settings) \cup {key} |->
                    IF k = key THEN UserOverride[key] ELSE settings[k]]
  /\ last' = EnvLast("edit", key)
  /\ UNCHANGED <<ctrl, ready, invoked, fails, observed, looked, threads>>

\* a storage-driver descriptor left in the store by another version: its
\* driver_type names no member of DriverType
StaleDriverDescriptor ==
  [class_constructor |-> "datmo.storage.local.driver.blitzdb_driver.BlitzDBDALDriver",
   options |-> [driver_type |-> Str("SQL"), connection_string |-> Str("")]]

\* the stale descriptor is written into the settings store
EditDriverType ==
  /\ edits < MaxEdits
  /\ edits' = edits + 1
  /\ settings' = [k \in (DOMAIN settings) \cup {"storage.local.driver"} |->
                    IF k = "storage.local.driver" THEN StaleDriverDescriptor
                    ELSE settings[k]]
  /\ last' = EnvLast("edit", "storage.local.driver")
  /\ UNCHANGED <<ctrl, ready, invoked, fails, observed, looked, threads>>

\* a driver's is_initialized changes under the controller
SetReport(c, slot, b) ==
  /\ ctrl[c] # None
  /\ ready[c][slot] # b
  /\ ready' = [ready EXCEPT ![c][slot] = b]
  /\ last' = EnvLast("set_report", slot)
  /\ UNCHANGED <<settings, ctrl, invoked, fails, edits, observed, looked, threads>>

ModelIds == {"m1"}
SessionIds == {"s1"}
OtherKeys == {"no.such.key"}

\* the controller of the single-instance specification
Single == {"A"}

AnyFailure == {"none"} \cup Factories

\* one controller: construction, the property reads, and the project changing
\* under it (ids stored and removed, drivers' reports changing)
Next ==
  \/ \E c \in Single, h \in Homes : New(c, h, None)
  \/ \E c \in Single : ReadDal(c, "none")
  \/ \E c \in Single : ReadModel(c, "none")
  \/ \E c \in Single : ReadCurrentSession(c, "none")
  \/ \E c \in Single : ReadCodeDriver(c, "none")
  \/ \E c \in Single : ReadFileDriver(c, "none")
  \/ \E c \in Single : ReadEnvironmentDriver(c, "none")
  \/ \E c \in Single : ReadIsInitialized(c, "none")
  \/ \E i \in ModelIds : SetId("model_id", i)
  \/ \E i \in SessionIds : SetId("current_session_id", i)
  \/ \E k \in IdKeys : RemoveId(k)
  \/ \E c \in Single, p \in DriverProps, b \in BOOLEAN : SetReport(c, p, b)

Spec == Init /\ [][Next]_vars

\* two controllers on one project: configuration resolution, the drivers
\* built from it, and users' descriptors in the store
NextConfig ==
  \/ \E c \in Controllers : New(c, ProjectDir, None)
  \/ \E c \in Single : ReadCodeDriver(c, "none")
  \/ \E c \in Single : ReadFileDriver(c, "none")
  \/ \E c \in Single : ReadEnvironmentDriver(c, "none")
  \/ \E c \in Controllers, k \in ConfigKeys \cup {"model_id"} :
       \E d \in DefaultsFor(c, k) : CallGetOrSetDefault(c, k, d)
  \/ \E c \in Controllers, k \in ConfigKeys \cup OtherKeys : CallConfigLoader(c, k)
  \/ \E k \in ConfigKeys : EditDescriptor(k)

SpecConfig == Init /\ [][NextConfig]_vars

\* one controller whose factories and record fetches may raise: the six lazy
\* properties read again and again while ids are stored
NextFail ==
  \/ \E c \in Single : New(c, ProjectDir, None)
  \/ \E c \in Single, f \in AnyFailure : ReadDal(c, f)
  \/ \E c \in Single, f \in AnyFailure : ReadModel(c, f)
  \/ \E c \in Single, f \in AnyFailure : ReadCurrentSession(c, f)
  \/ \E c \in Single, f \in AnyFailure : ReadCodeDriver(c, f)
  \/ \E c \in Single, f \in AnyFailure : ReadFileDriver(c, f)
  \/ \E c \in Single, f \in AnyFailure : ReadEnvironmentDriver(c, f)
  \/ \E i \in ModelIds : SetId("model_id", i)
  \/ \E i \in SessionIds : SetId("current_session_id", i)

SpecFail == Init /\ [][NextFail]_vars

StorageKeys == {"storage.local", "storage.local.driver"}

\* one controller and its data-access layer: built from the defaults or from
\* users' descriptors, on a supplied storage driver or on its own
NextDal ==
  \/ \E c \in Single, h \in Homes :
       \E d \in {None, SuppliedDriver(c)} : New(c, h, d)
  \/ \E c \in Single, f \in AnyFailure : ReadDal(c, f)
  \/ \E c \in Single, f \in AnyFailure : ReadModel(c, f)
  \/ \E c \in Single, f \in AnyFailure : CallDalInstantiate(c, f)
  \/ \E c \in Single, k \in StorageKeys \cup OtherKeys : CallConfigLoader(c, k)
  \/ \E i \in ModelIds : SetId("model_id", i)
  \/ \E k \in StorageKeys : EditDescriptor(k)
  \/ EditDriverType

SpecDal == Init /\ [][NextDal]_vars

-----------------------------------------------------------------------------
(* Vocabulary of the properties *)

\* the controller exists and its latch is set
Latched(c) == ctrl[c] # None /\ ctrl[c]._is_initialized

\* the latest call was op on controller c
Called(op, c) == last.op = op /\ last.c = c

\* the latest call was op on controller c and it returned (did not raise)
Returned(op, c) == Called(op, c) /\ last.exc = None

\* all three drivers of c report is_initialized
AllReport(c) == \A p \in DriverProps : ready[c][p]

\* the value ProjectSettings.get yields for the key in this state
Stored(key) == IF key \in DOMAIN settings THEN settings[key] ELSE None

\* positions of the events of a kind and key in a trace
Where(tr, ev, key) == {i \in 1..Len(tr) : tr[i].ev = ev /\ tr[i].key = key}

Happened(tr, ev, key) == Where(tr, ev, key) # {}

\* the six lazy properties, and the cache slot of each
LazyProps == {"dal", "model", "current_session"} \cup DriverProps

Slot(self, p) == self["_" \o p]

\* the invocation of p's factory or fetch in the trace raised
RaisedIn(tr, p) ==
  \E i \in Where(tr, "call", p) \cup Where(tr, "fetch", p) :
    i < Len(tr) /\ tr[i + 1].ev = "raise"

-----------------------------------------------------------------------------
(* C1: once a read of is_initialized has returned true on a controller,    *)
(* every later read of is_initialized on it returns true, whatever the     *)
(* drivers report and whether or not model_id is still in the store.       *)
C1_LatchMonotonic ==
  [][\A c \in Controllers :
       observed[c] = "true" =>
         /\ observed'[c] = "true"
         /\ Called("is_initialized", c)' => Returned("is_initialized", c)' /\ last'.ret = TRUE]_vars

\* a read returns true on a latched controller although a driver reports
\* false and model_id is gone
C1_Witness ==
  \E c \in Controllers :
    /\ Returned("is_initialized", c) /\ last.seen = "true" /\ last.ret = TRUE
    /\ ~ready[c]["code_driver"]
    /\ "model_id" \notin DOMAIN settings

(* C2: a read of is_initialized made while the latch is false returns true *)
(* iff the three drivers report initialized and the model property yields  *)
(* a record at that read; the latch is true only after such a read.        *)
C2_ReadDecides ==
  [][\A c \in Controllers :
       /\ (Returned("is_initialized", c)' /\ ~Latched(c)) =>
            (last'.ret = TRUE <=> (AllReport(c) /\ Truthy(ctrl'[c]._model)))
       /\ (~Latched(c) /\ Latched(c)') =>
            /\ Returned("is_initialized", c)' /\ last'.ret = TRUE
            /\ AllReport(c) /\ Truthy(ctrl'[c]._model)
       /\ Latched(c)' => observed'[c] = "true"]_vars

\* a read on an unlatched controller returns true
C2_Witness ==
  \E c \in Controllers :
    Returned("is_initialized", c) /\ ~last.latched /\ last.ret = TRUE

(* C3, as stated: each of the six lazy properties invokes its factory or   *)
(* record fetch at most once per controller, and a cache slot, once set,   *)
(* never changes.                                                          *)
C3_AtMostOnce ==
  [][\A c \in Controllers, p \in LazyProps :
       /\ invoked'[c][p] <= 1
       /\ (ctrl[c] # None /\ Slot(ctrl[c], p) # None) =>
            Slot(ctrl'[c], p) = Slot(ctrl[c], p)]_vars

(* C3, amended: a read invokes the factory or fetch of a lazy property at  *)
(* most once and only while its cache slot is empty; an invocation that    *)
(* returns fills the slot; a filled slot never changes and its factory or  *)
(* fetch is never invoked again (so at most one invocation per controller  *)
(* returns).                                                               *)
C3_AtMostOnceReturning ==
  [][\A c \in Controllers, p \in LazyProps :
       ctrl[c] # None =>
         /\ Slot(ctrl[c], p) # None =>
              /\ Slot(ctrl'[c], p) = Slot(ctrl[c], p)
              /\ invoked'[c][p] = invoked[c][p]
         /\ invoked'[c][p] \in {invoked[c][p], invoked[c][p] + 1}
         /\ invoked'[c][p] = invoked[c][p] + 1 =>
              \/ Slot(ctrl'[c], p) # None
              \/ RaisedIn(last'.trace, p)]_vars

\* a property is read again after its factory raised once and then returned:
\* the read is served from the slot
C3_Witness ==
  \E c \in Controllers :
    /\ Returned("code_driver", c) /\ last.trace = <<>>
    /\ last.ret = ctrl[c]._code_driver /\ last.ret # None
    /\ invoked[c]["code_driver"] = 2

(* C4, as stated: after a read of model found no model_id in the settings  *)
(* store, later reads of model on that controller do not read model_id     *)
(* again and yield no model.                                               *)
C4_LookupOnce ==
  \A c \in Controllers :
    (Called("model", c) /\ last.looked) =>
      /\ ~Happened(last.trace, "get", "model_id")
      /\ last.ret = None

(* C4, amended: only a fetched record is cached.  A read of model with an  *)
(* empty cache slot first reads model_id from the settings store, also     *)
(* after earlier reads found none, and yields no model and leaves the slot *)
(* empty when there is none; a read with a filled slot reads nothing.      *)
(* current_session, once the model is there, reads current_session_id in   *)
(* the same way on every read with an empty slot.                          *)
C4_LookupWhileEmpty ==
  [][\A c \in Controllers :
       /\ (Called("model", c)' /\ ctrl[c] # None) =>
            IF ctrl[c]._model = None
              THEN /\ last'.trace # <<>>
                   /\ last'.trace[1] = Event("get", "model_id", Stored("model_id"))
                   /\ ~Truthy(Stored("model_id")) =>
                        /\ Returned("model", c)' /\ last'.ret = None
                        /\ last'.trace = <<Event("get", "model_id", Stored("model_id"))>>
                        /\ ctrl'[c]._model = None
                        /\ invoked'[c]["model"] = invoked[c]["model"]
              ELSE /\ last'.trace = <<>>
                   /\ last'.ret = ctrl[c]._model
       /\ (Called("current_session", c)' /\ ctrl[c] # None /\ Truthy(ctrl'[c]._model)
             /\ ~RaisedIn(last'.trace, "model") /\ ~RaisedIn(last'.trace, "dal")
             /\ ~RaisedIn(last'.trace, "dal_driver")) =>
            IF ctrl[c]._current_session = None
              THEN /\ Happened(last'.trace, "get", "current_session_id")
                   /\ ~Truthy(Stored("current_session_id")) =>
                        /\ Returned("current_session", c)' /\ last'.ret = None
                        /\ ctrl'[c]._current_session = None
              ELSE /\ ~Happened(last'.trace, "get", "current_session_id")
                   /\ last'.ret = ctrl[c]._current_session]_vars

\* a read of model after an earlier lookup found nothing reads model_id again
C4_Witness ==
  \E c \in Controllers :
    /\ Returned("model", c) /\ last.looked
    /\ last.trace = <<Event("get", "model_id", None)>>
    /\ last.ret = None

(* C5: a read of is_initialized on a controller that has resolved no model *)
(* returns false while the store has no model_id; once model_id is stored and the three drivers report             *)
(* initialized, the next read on the same controller returns true although *)
(* an earlier one returned false, and reads after a true one return true.  *)
C5_RecheckWhileFalse ==
  \A c \in Controllers :
    Returned("is_initialized", c) =>
      /\ (ctrl[c]._model = None /\ Stored("model_id") = None) => last.ret = FALSE
      /\ (last.seen = "false" /\ Truthy(Stored("model_id")) /\ AllReport(c)) =>
           last.ret = TRUE /\ Latched(c)
      /\ last.seen = "true" => last.ret = TRUE

\* a read returns true on a controller whose earlier read returned false
\* after a lookup of model_id had found nothing
C5_Witness ==
  \E c \in Controllers :
    /\ Returned("is_initialized", c) /\ last.seen = "false" /\ last.looked
    /\ last.ret = TRUE

(* C10: a read of current_session on a controller whose model property     *)
(* yields no model raises the model-not-initialized error, does not read   *)
(* current_session_id from the settings store and leaves the cache slot of *)
(* current_session empty.                                                  *)
C10_SessionNeedsModel ==
  \A c \in Controllers :
    (Called("current_session", c) /\ Happened(last.trace, "get", "model_id")
       /\ \A i \in Where(last.trace, "get", "model_id") : ~Truthy(last.trace[i].val)) =>
      /\ last.exc = Str("DatmoModelNotInitializedException")
      /\ last.trace[Len(last.trace)] = Event("raise", "DatmoModelNotInitializedException", None)
      /\ ~Happened(last.trace, "get", "current_session_id")
      /\ ~Happened(last.trace, "fetch", "current_session")
      /\ ctrl[c]._current_session = None

\* the read raises although the store holds a current_session_id
C10_Witness ==
  \E c \in Controllers :
    /\ Called("current_session", c)
    /\ last.exc = Str("DatmoModelNotInitializedException")
    /\ "current_session_id" \in DOMAIN settings
    /\ "model_id" \notin DOMAIN settings

-----------------------------------------------------------------------------
(* Configuration resolution (SpecConfig) *)

\* the latest call was a call of the controller, not a change from outside
ByController == last.c \in Controllers

(* C6: get_or_set_default on a key that has an entry returns the stored    *)
(* value whatever the default, and no call of a controller changes or      *)
(* removes an entry the store already holds.                               *)
C6_StoredValueKept ==
  [][ByController' =>
       /\ \A k \in DOMAIN settings :
            k \in DOMAIN settings' /\ settings'[k] = settings[k]
       /\ \A c \in Controllers :
            (Called("get_or_set_default", c)' /\ last'.arg.key \in DOMAIN settings) =>
              /\ Returned("get_or_set_default", c)'
              /\ last'.ret = settings[last'.arg.key]
              /\ settings' = settings]_vars

\* get_or_set_default returns a stored descriptor that differs from the
\* default it was given
C6_Witness ==
  \E c \in Controllers :
    /\ Returned("get_or_set_default", c)
    /\ last.arg.key \in ConfigKeys
    /\ last.ret # last.arg.default_value
    /\ settings[last.arg.key] = last.ret
    /\ ~Happened(last.trace, "set", last.arg.key)

(* C7: get_or_set_default on a key without an entry returns the default,   *)
(* a read of the key from the store then yields the default, and no other  *)
(* key of the store changes.                                               *)
C7_DefaultStored ==
  [][\A c \in Controllers :
       (Called("get_or_set_default", c)' /\ last'.arg.key \notin DOMAIN settings) =>
         /\ Returned("get_or_set_default", c)'
         /\ last'.ret = last'.arg.default_value
         /\ DOMAIN settings' = DOMAIN settings \cup {last'.arg.key}
         /\ settings'[last'.arg.key] = last'.arg.default_value
         /\ \A k \in DOMAIN settings : settings'[k] = settings[k]]_vars

\* a user's descriptor passed as the default of an absent key is now stored,
\* next to other entries
C7_Witness ==
  \E c \in Controllers :
    /\ Returned("get_or_set_default", c)
    /\ Happened(last.trace, "set", last.arg.key)
    /\ last.arg.key \in ConfigKeys
    /\ last.ret = UserOverride[last.arg.key]
    /\ settings[last.arg.key] = last.ret
    /\ Cardinality(DOMAIN settings) > 1

\* the property read of each driver, and the key of its descriptor
DriverKey ==
  [p \in DriverProps |->
     CASE p = "code_driver" -> "controller.code.driver"
       [] p = "file_driver" -> "controller.file.driver"
       [] p = "environment_driver" -> "controller.environment.driver"]

(* C8: config_loader on a key of the defaults table returns a descriptor   *)
(* whose constructor is the class resolved from the identifier stored      *)
(* under the key when there is an entry, and from the default identifier   *)
(* only when there is none; a driver property read with an empty slot      *)
(* builds the class and passes the options of the stored descriptor.       *)
C8_OverrideResolved ==
  [][\A c \in Controllers :
       ctrl[c] # None =>
         /\ \A k \in ConfigKeys :
              (Called("config_loader", c)' /\ last'.arg.key = k) =>
                LET inUse == IF k \in DOMAIN settings THEN settings[k]
                             ELSE get_config_defaults(ctrl[c])[k]
                IN  /\ Returned("config_loader", c)'
                    /\ last'.ret.constructor = [t |-> "class", name |-> ClassTable[inUse.class_constructor]]
                    /\ last'.ret.class_constructor = inUse.class_constructor
                    /\ last'.ret.options = inUse.options
         /\ \A p \in DriverProps :
              (Called(p, c)' /\ Slot(ctrl[c], p) = None /\ DriverKey[p] \in DOMAIN settings) =>
                /\ Returned(p, c)'
                /\ last'.ret.cls = ClassTable[settings[DriverKey[p]].class_constructor]
                /\ last'.ret.args = settings[DriverKey[p]].options
                /\ Slot(ctrl'[c], p) = last'.ret]_vars

\* a driver is built from a user's descriptor
C8_Witness ==
  \E c \in Controllers :
    /\ Returned("code_driver", c)
    /\ Happened(last.trace, "call", "code_driver")
    /\ last.ret.cls = "HgCodeDriver"
    /\ last.ret.args.execpath = Str("hg")

-----------------------------------------------------------------------------
(* The data-access layer (SpecDal) *)

(* C9: whenever the data-access-layer factory is invoked, the driver       *)
(* option it receives is a live storage-driver object, never the           *)
(* placeholder string of the storage.local descriptor: the driver the      *)
(* controller holds (the one supplied at construction, if any), otherwise  *)
(* the storage driver whose factory returned earlier in the same call.     *)
C9_LiveDriverInjected ==
  [][\A c \in Controllers :
       /\ (Returned("__init__", c)') => ctrl'[c].dal_driver = last'.arg.dal_driver
       /\ ctrl[c] # None =>
            /\ Truthy(ctrl[c].dal_driver) => ctrl'[c].dal_driver = ctrl[c].dal_driver
            /\ \A i \in Where(last'.trace, "call", "dal") :
                 last'.c = c =>
                   LET tr == last'.trace
                       drv == tr[i].val.options.driver
                   IN  /\ drv.t = "obj"
                       /\ drv = ctrl'[c].dal_driver
                       /\ IF Truthy(ctrl[c].dal_driver)
                            THEN /\ drv = ctrl[c].dal_driver
                                 /\ ~Happened(tr, "call", "dal_driver")
                            ELSE \E j \in Where(tr, "call", "dal_driver") :
                                   /\ j < i
                                   /\ drv.cls = tr[j].val.constructor.name
                                   /\ drv.args = tr[j].val.options
                                   /\ drv.id = <<c, "dal_driver", invoked'[c]["dal_driver"]>>
                       /\ (last'.exc = None /\ last'.op \in {"dal", "dal_instantiate"}) =>
                            /\ last'.ret.t = "obj"
                            /\ last'.ret.args.driver = drv
                       /\ (~RaisedIn(tr, "dal") /\ last'.op # "dal_instantiate") =>
                            ctrl'[c]._dal.args.driver = drv]_vars

\* a data-access layer is built from a user's descriptor, with the storage
\* driver built in the same call in place of the descriptor's placeholder
C9_Witness ==
  \E c \in Controllers :
    /\ Returned("dal", c)
    /\ Happened(last.trace, "call", "dal_driver")
    /\ Stored("storage.local") = UserOverride["storage.local"]
    /\ last.ret.cls = "RemoteDAL"
    /\ last.ret.args.driver = ctrl[c].dal_driver
    /\ ctrl[c].dal_driver.cls = "BlitzDBDALDriver"

-----------------------------------------------------------------------------
(* Errors of configuration resolution and construction *)

(* C11: config_loader called with a key that the defaults table does not   *)
(* have raises KeyError (a lookup error) as its first and only step: the   *)
(* settings store is neither read nor written, no class is resolved, no    *)
(* factory is invoked and the controller is unchanged.                     *)
C11_UnknownKeyFails ==
  [][\A c \in Controllers :
       (Called("config_loader", c)' /\ last'.arg.key \notin ConfigKeys) =>
         /\ last'.exc = Str("KeyError")
         /\ last'.trace = <<Event("raise", "KeyError", None)>>
         /\ settings' = settings
         /\ invoked' = invoked
         /\ ctrl' = ctrl]_vars

\* the call fails on a project whose store holds descriptors
C11_Witness ==
  \E c \in Controllers :
    /\ Called("config_loader", c) /\ last.arg.key \in OtherKeys
    /\ last.exc = Str("KeyError")
    /\ last.ret = None
    /\ "storage.local" \in DOMAIN settings
    /\ OtherKeys \cap DOMAIN settings = {}

-----------------------------------------------------------------------------
(* C12: when the controller holds no storage driver, the storage-driver    *)
(* factory is invoked only with a member of DriverType as driver_type: the *)
(* member named by the string of the storage.local.driver descriptor in    *)
(* use (the stored one, else the default), the other options as they are.  *)
(* A string that names no member raises KeyError before the factory, which *)
(* is then not invoked at all.                                             *)
C12_DriverTypeTranslated ==
  [][\A c \in Controllers :
       (last'.c = c /\ ctrl[c] # None /\ ~Truthy(ctrl[c].dal_driver)) =>
         LET tr == last'.trace
             k == "storage.local.driver"
             inUse == IF k \in DOMAIN settings THEN settings[k]
                      ELSE get_config_defaults(ctrl[c])[k]
             name == inUse.options.driver_type
         IN  /\ \A i \in Where(tr, "call", "dal_driver") :
                  /\ name.t = "str" /\ name.v \in DriverTypeNames
                  /\ tr[i].val.options.driver_type = DriverTypeMember(name.v)
                  /\ tr[i].val.options.driver_type.t # "str"
                  /\ tr[i].val.options.connection_string = inUse.options.connection_string
                  /\ \E j \in Where(tr, "get", k) : j < i
             /\ (name.v \notin DriverTypeNames /\ Happened(tr, "get", k)
                   /\ last'.op # "config_loader") =>
                  /\ last'.exc = Str("KeyError")
                  /\ ~Happened(tr, "call", "dal_driver")
                  /\ ~Happened(tr, "call", "dal")
                  /\ ctrl'[c].dal_driver = ctrl[c].dal_driver]_vars

\* a storage driver is built from a user's descriptor whose driver_type is
\* the string "MEMORY"
C12_Witness ==
  \E c \in Controllers :
    /\ Returned("dal", c)
    /\ Stored("storage.local.driver") = UserOverride["storage.local.driver"]
    /\ \E i \in Where(last.trace, "call", "dal_driver") :
         last.trace[i].val.options.driver_type = DriverTypeMember("MEMORY")
    /\ ctrl[c].dal_driver.args.driver_type = DriverTypeMember("MEMORY")

-----------------------------------------------------------------------------
(* C13: BaseController(home) with a home that is no existing directory     *)
(* raises InvalidProjectPathException, opens no settings store for that    *)
(* home and yields no controller; with an existing directory it returns a  *)
(* controller on that home whose six cache slots are empty and whose latch *)
(* is false, with the settings store of that home opened.  Neither changes *)
(* the store or invokes a factory.                                         *)
C13_ConstructorValidatesHome ==
  [][\A c \in Controllers :
       Called("__init__", c)' =>
         /\ settings' = settings /\ invoked' = invoked
         /\ IF last'.arg.home = ProjectDir
              THEN /\ last'.exc = None
                   /\ last'.trace = <<Event("open", ProjectDir, None)>>
                   /\ ctrl'[c] # None
                   /\ ctrl'[c].home = ProjectDir
                   /\ ctrl'[c].dal_driver = last'.arg.dal_driver
                   /\ \A p \in LazyProps : Slot(ctrl'[c], p) = None
                   /\ ctrl'[c]._is_initialized = FALSE
              ELSE /\ last'.exc = Str("InvalidProjectPathException")
                   /\ ~Happened(last'.trace, "open", last'.arg.home)
                   /\ ctrl'[c] = None]_vars

\* construction on a path that is no directory has failed, next to a project
\* whose store holds a model_id
C13_Witness ==
  \E c \in Controllers :
    /\ Called("__init__", c) /\ last.arg.home = NoDir
    /\ last.exc = Str("InvalidProjectPathException")
    /\ ctrl[c] = None
    /\ "model_id" \in DOMAIN settings

-----------------------------------------------------------------------------
(* The defaults of the environment driver *)

\* the first read of environment_driver on controller c in a step, made
\* while the store has no descriptor for it
FirstEnvironmentRead(c) ==
  /\ Called("environment_driver", c)'
  /\ ctrl[c] # None /\ ctrl[c]._environment_driver = None
  /\ "controller.environment.driver" \notin DOMAIN settings

\* the options the environment-driver factory received in a trace
EnvironmentOptions(tr) ==
  {tr[i].val.options : i \in Where(tr, "call", "environment_driver")}

(* C14, as stated: the first read of environment_driver on a project whose *)
(* store has no descriptor for it invokes the factory with the options     *)
(* filepath = home, execpath = "docker" and                                *)
(* socket = "unix:///var/run/docker.sock".                                 *)
C14_DefaultOptionsAsStated ==
  [][\A c \in Controllers :
       FirstEnvironmentRead(c) =>
         EnvironmentOptions(last'.trace) =
           {[filepath |-> Str(ctrl[c].home), execpath |-> Str("docker"),
             socket |-> Str("unix:///var/run/docker.sock")]}]_vars

(* C14, amended: that read invokes the factory of DockerEnvironmentDriver  *)
(* once, with exactly the options filepath = home,                         *)
(* docker_execpath = "docker" and                                          *)
(* docker_socket = "unix:///var/run/docker.sock", stores the default       *)
(* descriptor under controller.environment.driver and caches the driver.   *)
C14_DefaultOptions ==
  [][\A c \in Controllers :
       FirstEnvironmentRead(c) =>
         LET options == [filepath |-> Str(ctrl[c].home),
                         docker_execpath |-> Str("docker"),
                         docker_socket |-> Str("unix:///var/run/docker.sock")]
         IN  /\ EnvironmentOptions(last'.trace) = {options}
             /\ Cardinality(Where(last'.trace, "call", "environment_driver")) = 1
             /\ DOMAIN options = {"filepath", "docker_execpath", "docker_socket"}
             /\ Returned("environment_driver", c)'
             /\ last'.ret.cls = "DockerEnvironmentDriver"
             /\ last'.ret.args = options
             /\ ctrl'[c]._environment_driver = last'.ret
             /\ settings'["controller.environment.driver"].options = options]_vars

\* the environment driver was built from the defaults on a project whose
\* store had no descriptor for it
C14_Witness ==
  \E c \in Controllers :
    /\ Returned("environment_driver", c)
    /\ Happened(last.trace, "set", "controller.environment.driver")
    /\ Happened(last.trace, "call", "environment_driver")
    /\ last.ret.args.docker_execpath = Str("docker")
    /\ last.ret.args.filepath = Str(ProjectDir)

-----------------------------------------------------------------------------
(* Two threads on one controller (SpecThreads) *)

(* A property read by a thread is the sequence of its statements: the test *)
(* of the cache slot, the evaluation of the right-hand side of the         *)
(* assignment, the assignment to the slot, and the return of the slot's    *)
(* value.  Another thread may run between any two of them.  The calls made *)
(* by the right-hand side are taken as one step.                           *)

\* the controller the threads share
Shared == "A"

\* the properties the threads read
RacedProps == {"code_driver", "dal"}

\* the right-hand side of the assignment that fills the slot of p
fill_value(st, p) ==
  IF p = "dal"
    THEN dal_instantiate(st)
    ELSE Then(config_loader(st, DriverKey[p]), LAMBDA s1 :
           construct(s1, p, s1.ret.constructor, s1.ret.options))

\* the thread moves on; nothing but its own record changes
Advance(t, pc, obj, ret) ==
  threads' = [threads EXCEPT ![t] = [pc |-> pc, prop |-> @.prop, obj |-> obj, ret |-> ret]]

\* a thread starts to read property p
Begin(t, p) ==
  /\ ctrl[Shared] # None
  /\ threads[t].pc \in {"idle", "done"}
  /\ threads' = [threads EXCEPT ![t] = [pc |-> "check", prop |-> p, obj |-> None, ret |-> None]]
  /\ UNCHANGED <<settings, ctrl, ready, invoked, fails, edits, observed, looked, last>>

\* `if self._<p> == None:`
Check(t) ==
  /\ threads[t].pc = "check"
  /\ Advance(t, IF Slot(ctrl[Shared], threads[t].prop) = None THEN "fill" ELSE "return",
             None, None)
  /\ UNCHANGED <<settings, ctrl, ready, invoked, fails, edits, observed, looked, last>>

\* Fill as it would be if the thread tested the slot again before it
\* evaluates the right-hand side
Fill_rechecking(t) ==
  /\ threads[t].pc = "fill"
  /\ IF Slot(ctrl[Shared], threads[t].prop) = None
       THEN LET st == fill_value(Frame(Shared, "none"), threads[t].prop)
            IN  /\ Ok(st)
                /\ settings' = st.settings
                /\ ctrl' = [ctrl EXCEPT ![Shared] = st.self]
                /\ invoked' = [invoked EXCEPT ![Shared] = st.invoked]
                /\ Advance(t, "store", st.ret, None)
       ELSE /\ Advance(t, "return", None, None)
            /\ UNCHANGED <<settings, ctrl, invoked>>
  /\ UNCHANGED <<ready, fails, edits, observed, looked, last>>

\* the right-hand side of `self._<p> = ...`, evaluated by a thread that found
\* the slot empty
Fill(t) ==
  /\ threads[t].pc = "fill"
  /\ LET st == fill_value(Frame(Shared, "none"), threads[t].prop)
     IN  /\ Ok(st)
         /\ settings' = st.settings
         /\ ctrl' = [ctrl EXCEPT ![Shared] = st.self]
         /\ invoked' = [invoked EXCEPT ![Shared] = st.invoked]
         /\ Advance(t, "store", st.ret, None)
  /\ UNCHANGED <<ready, fails, edits, observed, looked, last>>

\* `self._<p> = <the object built>`
Store(t) ==
  /\ threads[t].pc = "store"
  /\ ctrl' = [ctrl EXCEPT ![Shared]["_" \o threads[t].prop] = threads[t].obj]
  /\ Advance(t, "return", threads[t].obj, None)
  /\ UNCHANGED <<settings, ready, invoked, fails, edits, observed, looked, last>>

\* `return self._<p>`
ReturnSlot(t) ==
  /\ threads[t].pc = "return"
  /\ Advance(t, "done", threads[t].obj, Slot(ctrl[Shared], threads[t].prop))
  /\ UNCHANGED <<settings, ctrl, ready, invoked, fails, edits, observed, looked, last>>

NextThreads ==
  \/ New(Shared, ProjectDir, None)
  \/ \E t \in Threads, p \in RacedProps : Begin(t, p)
  \/ \E t \in Threads : Check(t)
  \/ \E t \in Threads : Fill(t)
  \/ \E t \in Threads : Store(t)
  \/ \E t \in Threads : ReturnSlot(t)

SpecThreads == Init /\ [][NextThreads]_vars

(* C15: a thread that found the slot of a lazy property empty evaluates    *)
(* the right-hand side, invoking the factory, and assigns the object it    *)
(* built to the slot, whatever another thread has stored there since the   *)
(* test; it returns what the slot holds when it returns.  So two threads   *)
(* that both found the slot empty invoke the factory twice, the slot ends  *)
(* with the object stored last, and when their reads return different      *)
(* objects the factory was invoked twice and the slot holds one of them.   *)
C15_CheckThenFill ==
  [][\A t \in Threads :
       LET p == threads[t].prop
           was == threads[t].pc
           now == threads'[t].pc
       IN  /\ (was = "check" /\ now # was) =>
                now = IF Slot(ctrl[Shared], p) = None THEN "fill" ELSE "return"
           /\ (was = "fill" /\ now # was) =>
                /\ now = "store"
                /\ invoked'[Shared][p] = invoked[Shared][p] + 1
                /\ threads'[t].obj.id = <<Shared, p, invoked'[Shared][p]>>
                /\ Slot(ctrl'[Shared], p) = Slot(ctrl[Shared], p)
           /\ (was = "store" /\ now # was) =>
                /\ Slot(ctrl'[Shared], p) = threads[t].obj
                /\ invoked' = invoked
           /\ (was = "return" /\ now # was) =>
                /\ now = "done"
                /\ threads'[t].ret = Slot(ctrl[Shared], p)
                /\ threads'[t].ret # None
           /\ \A u \in Threads :
                (/\ threads'[t].pc = "done" /\ threads'[u].pc = "done"
                 /\ threads'[t].prop = threads'[u].prop
                 /\ threads'[t].ret # threads'[u].ret) =>
                  /\ invoked'[Shared][threads'[t].prop] = Cardinality(Threads)
                  /\ Slot(ctrl'[Shared], threads'[t].prop) \in {threads'[t].ret, threads'[u].ret}]_vars

\* both threads found the slot of code_driver empty: the factory was invoked
\* twice, each read returned the object its thread built, and the slot holds
\* the one stored by the second thread, which returned last
C15_Witness ==
  /\ \A t \in Threads : threads[t].pc = "done" /\ threads[t].prop = "code_driver"
  /\ \A t \in Threads : threads[t].ret = threads[t].obj /\ threads[t].ret # None
  /\ threads["T1"].ret # threads["T2"].ret
  /\ invoked[Shared]["code_driver"] = 2
  /\ ctrl[Shared]._code_driver = threads["T2"].ret
  /\ threads["T1"].ret.id = <<Shared, "code_driver", 2>>

-----------------------------------------------------------------------------
(* Factories that raise (SpecFail) *)

\* the attribute that holds what factory f builds
SlotOf(self, f) == IF f = "dal_driver" THEN self.dal_driver ELSE Slot(self, f)

\* the factories of the drivers, the storage driver and the data-access layer
ObjectFactories == DriverProps \cup DalFactories

(* C16: when a factory of a driver, of the storage driver or of the        *)
(* data-access layer raises during a read of a lazy property, that read    *)
(* raises the factory's error right after the one invocation of the        *)
(* factory, nothing is returned, the attribute the factory fills and the   *)
(* cache slot of the property read stay as they were (empty), and a read   *)
(* of a driver or of dal made while its slot is empty invokes the factory  *)
(* (again), unless the storage driver's factory raises first.              *)
C16_ConstructionErrorPropagates ==
  [][\A c \in Controllers :
       (last'.c = c /\ last'.op \in LazyProps /\ ctrl[c] # None) =>
         LET tr == last'.trace
         IN  /\ \A f \in ObjectFactories :
                  RaisedIn(tr, f) =>
                    /\ last'.exc = Str("ConstructionError")
                    /\ last'.ret = None
                    /\ Cardinality(Where(tr, "call", f)) = 1
                    /\ invoked'[c][f] = invoked[c][f] + 1
                    /\ Where(tr, "call", f) = {Len(tr) - 1}
                    /\ tr[Len(tr)] = Event("raise", "ConstructionError", None)
                    /\ SlotOf(ctrl[c], f) = None /\ SlotOf(ctrl'[c], f) = None
                    /\ Slot(ctrl'[c], last'.op) = None
             /\ \A p \in DriverProps \cup {"dal"} :
                  (last'.op = p /\ Slot(ctrl[c], p) = None) =>
                    \/ Happened(tr, "call", p)
                    \/ RaisedIn(tr, "dal_driver")]_vars

\* the data-access layer is built by the second invocation of its factory:
\* the first one raised and left the slot empty
C16_Witness ==
  \E c \in Controllers :
    /\ Returned("dal", c)
    /\ Happened(last.trace, "call", "dal")
    /\ invoked[c]["dal"] = 2
    /\ ctrl[c]._dal = last.ret /\ last.ret.id = <<c, "dal", 2>>

-----------------------------------------------------------------------------
(* Two controllers on one project (SpecTwo) *)

\* two controllers opened on the same directory, each reading its properties
\* while the project is initialised and its model_id stored and removed
NextTwo ==
  \/ \E c \in Controllers : New(c, ProjectDir, None)
  \/ \E c \in Controllers : ReadDal(c, "none")
  \/ \E c \in Controllers : ReadCodeDriver(c, "none")
  \/ \E c \in Controllers : ReadIsInitialized(c, "none")
  \/ \E i \in ModelIds : SetId("model_id", i)
  \/ RemoveId("model_id")
  \/ \E c \in Controllers, p \in DriverProps : SetReport(c, p, TRUE)

SpecTwo == Init /\ [][NextTwo]_vars

(* C17: a call on one controller leaves the other controller as it is: its *)
(* six cache slots, its latch, its storage driver and the invocation       *)
(* counts of its factories.  A controller whose slot is empty builds an    *)
(* object of its own on its read, also when the other controller has built *)
(* one, and its latch is set only by a read of its own is_initialized.     *)
C17_CachesPerInstance ==
  [][\A c \in Controllers : \A d \in Controllers \ {c} :
       last'.c = c =>
         /\ ctrl'[d] = ctrl[d]
         /\ invoked'[d] = invoked[d]
         /\ observed'[d] = observed[d]
         /\ \A p \in DriverProps \cup {"dal"} :
              (Called(p, c)' /\ ctrl[c] # None /\ Slot(ctrl[c], p) = None) =>
                /\ Happened(last'.trace, "call", p)
                /\ invoked'[c][p] = invoked[c][p] + 1
                /\ last'.ret.id[1] = c
                /\ ctrl[d] # None => last'.ret # Slot(ctrl[d], p)
         /\ (Called("dal", c)' /\ ctrl[c] # None /\ ctrl[c]._dal = None /\ ctrl[d] # None) =>
              ctrl'[c].dal_driver # ctrl[d].dal_driver]_vars

\* B's read of is_initialized returns false and leaves its latch false after
\* A's latch has become true; each holds a code driver of its own
C17_Witness ==
  /\ Latched("A")
  /\ Returned("is_initialized", "B") /\ last.ret = FALSE
  /\ ~Latched("B")
  /\ ctrl["A"]._code_driver.id = <<"A", "code_driver", 1>>
  /\ ctrl["B"]._code_driver.id = <<"B", "code_driver", 1>>
  /\ ctrl["A"]._dal # None /\ ctrl["B"]._dal = None

-----------------------------------------------------------------------------
(* What a read leaves alone *)

(* C18: a read of model or of is_initialized made while the settings store *)
(* has no model_id invokes neither the factory of the data-access layer    *)
(* nor the one of the storage driver, fetches no record, writes neither    *)
(* storage.local nor storage.local.driver, and leaves the cache slot of    *)
(* dal and dal_driver as they were.                                        *)
C18_NoModelIdNoDal ==
  [][\A c \in Controllers :
       (last'.c = c /\ last'.op \in {"model", "is_initialized"}
          /\ ctrl[c] # None /\ "model_id" \notin DOMAIN settings) =>
         /\ \A f \in DalFactories :
              /\ ~Happened(last'.trace, "call", f)
              /\ invoked'[c][f] = invoked[c][f]
         /\ ~Happened(last'.trace, "fetch", "model")
         /\ \A k \in StorageKeys :
              /\ ~Happened(last'.trace, "set", k)
              /\ ~Happened(last'.trace, "get", k)
              /\ (k \in DOMAIN settings') = (k \in DOMAIN settings)
              /\ k \in DOMAIN settings => settings'[k] = settings[k]
         /\ ctrl'[c]._dal = ctrl[c]._dal
         /\ ctrl'[c].dal_driver = ctrl[c].dal_driver
         /\ last'.exc = None]_vars

\* is_initialized got as far as the model on a project without model_id:
\* the three drivers report initialized, the read returns false, and there
\* is no data-access layer and no storage descriptor
C18_Witness ==
  \E c \in Controllers :
    /\ Returned("is_initialized", c) /\ last.ret = FALSE
    /\ AllReport(c)
    /\ Happened(last.trace, "get", "model_id")
    /\ "model_id" \notin DOMAIN settings
    /\ ctrl[c]._dal = None /\ ctrl[c].dal_driver = None
    /\ StorageKeys \cap DOMAIN settings = {}

\* the positions in a trace at which the settings store is read for the
\* descriptor of driver p
Loads(tr, p) == Where(tr, "get", DriverKey[p])

\* the driver p and its descriptor are left alone by the step
Untouched(c, p) ==
  /\ Loads(last'.trace, p) = {}
  /\ ~Happened(last'.trace, "set", DriverKey[p])
  /\ ~Happened(last'.trace, "call", p)
  /\ invoked'[c][p] = invoked[c][p]
  /\ Slot(ctrl'[c], p) = Slot(ctrl[c], p)
  /\ (DriverKey[p] \in DOMAIN settings') = (DriverKey[p] \in DOMAIN settings)

(* C19: a read of is_initialized with the latch false takes the code       *)
(* driver, the environment driver, the file driver and the model in this   *)
(* order and stops at the first that fails.  When the code driver reports  *)
(* not initialized, the read returns false, builds neither the environment *)
(* driver nor the file driver, reads and writes neither of their settings  *)
(* keys and does not read model_id; likewise for what follows the          *)
(* environment driver and the file driver.                                 *)
C19_ShortCircuitOrder ==
  [][\A c \in Controllers :
       (Called("is_initialized", c)' /\ ctrl[c] # None /\ ~ctrl[c]._is_initialized) =>
         LET tr == last'.trace
             ids == Where(tr, "get", "model_id")
         IN  /\ ~ready[c]["code_driver"] =>
                  /\ Untouched(c, "environment_driver") /\ Untouched(c, "file_driver")
                  /\ ids = {}
                  /\ Returned("is_initialized", c)' /\ last'.ret = FALSE
             /\ ~ready[c]["environment_driver"] =>
                  /\ Untouched(c, "file_driver") /\ ids = {}
                  /\ last'.ret = FALSE
             /\ ~ready[c]["file_driver"] => ids = {} /\ last'.ret = FALSE
             /\ \A i \in Loads(tr, "environment_driver") \cup Loads(tr, "file_driver") \cup ids :
                  ready[c]["code_driver"]
                    /\ \A j \in Loads(tr, "code_driver") : j < i
             /\ \A i \in Loads(tr, "file_driver") \cup ids :
                  ready[c]["environment_driver"]
                    /\ \A j \in Loads(tr, "environment_driver") : j < i
             /\ \A i \in ids :
                  ready[c]["file_driver"]
                    /\ \A j \in Loads(tr, "file_driver") : j < i
             /\ Slot(ctrl[c], "code_driver") = None => Loads(tr, "code_driver") # {}]_vars

\* the read stopped at the code driver it has just built: the other two
\* drivers report initialized and model_id is stored, but neither driver
\* exists, neither descriptor is stored and no model was looked up
C19_Witness ==
  \E c \in Controllers :
    /\ Returned("is_initialized", c) /\ last.ret = FALSE
    /\ Happened(last.trace, "call", "code_driver")
    /\ ~ready[c]["code_driver"]
    /\ ready[c]["environment_driver"] /\ ready[c]["file_driver"]
    /\ "model_id" \in DOMAIN settings
    /\ ctrl[c]._environment_driver = None /\ ctrl[c]._file_driver = None
    /\ {DriverKey["environment_driver"], DriverKey["file_driver"]} \cap DOMAIN settings = {}
    /\ ctrl[c]._model = None

-----------------------------------------------------------------------------
(* Writes to the settings store (SpecWrites) *)

\* the keys the second controller resolves, and the keys get_or_set_default
\* is called with
ResolvedKeys == {"storage.local", "controller.code.driver"}
DefaultedKeys == IdKeys \cup {"controller.file.driver"}

\* the operations of the controller that reach the settings store, on a
\* project that two controllers share: one reads its properties and calls
\* get_or_set_default, the other resolves configuration, while ids are
\* stored and the drivers come to report initialized
NextWrites ==
  \/ \E c \in Controllers : New(c, ProjectDir, None)
  \/ \E c \in Single : ReadCurrentSession(c, "none")
  \/ \E c \in Single : ReadIsInitialized(c, "none")
  \/ \E c \in Controllers \ Single, k \in ResolvedKeys : CallConfigLoader(c, k)
  \/ \E c \in Single, k \in DefaultedKeys :
       \E d \in DefaultsFor(c, k) : CallGetOrSetDefault(c, k, d)
  \/ \E i \in ModelIds : SetId("model_id", i)
  \/ \E i \in SessionIds : SetId("current_session_id", i)
  \/ \E c \in Single, p \in DriverProps : SetReport(c, p, TRUE)

SpecWrites == Init /\ [][NextWrites]_vars

\* the keys written to the settings store during the latest call
Written(tr) == {tr[i].key : i \in {j \in 1..Len(tr) : tr[j].ev = "set"}}

(* C20, as stated: every write of a controller to the settings store is    *)
(* under one of the five keys of the defaults table, never under model_id  *)
(* or current_session_id, and under a key that had no entry.               *)
C20_WritesOnlyDefaults ==
  [][ByController' =>
       \A k \in Written(last'.trace) :
         k \in ConfigKeys /\ k \notin IdKeys /\ k \notin DOMAIN settings]_vars

(* C20, amended: a property read and config_loader write only under keys   *)
(* of the defaults table, never under model_id or current_session_id;      *)
(* get_or_set_default writes only under the key it is called with, which   *)
(* may be any key.  Every write is under a key that had no entry, once in  *)
(* the call, and stores the default; no call changes or removes an entry,  *)
(* so each key is written at most once per project.                        *)
C20_WritesOnlyAbsentKeys ==
  [][ByController' =>
       /\ \A k \in Written(last'.trace) :
            /\ k \notin DOMAIN settings
            /\ Cardinality(Where(last'.trace, "set", k)) = 1
            /\ k \in DOMAIN settings'
            /\ IF last'.op = "get_or_set_default"
                 THEN k = last'.arg.key /\ settings'[k] = last'.arg.default_value
                 ELSE /\ k \in ConfigKeys /\ k \notin IdKeys
                      /\ settings'[k] = get_config_defaults(ctrl'[last'.c])[k]
       /\ DOMAIN settings' = DOMAIN settings \cup Written(last'.trace)
       /\ \A k \in DOMAIN settings : settings'[k] = settings[k]]_vars

\* a read of current_session that built the data-access layer wrote the two
\* storage keys next to the ids, which are as the user stored them, and the
\* descriptor the other controller had written
C20_Witness ==
  /\ Returned("current_session", "A")
  /\ Written(last.trace) = StorageKeys
  /\ Stored("model_id") = Str("m1") /\ Stored("current_session_id") = Str("s1")
  /\ last.ret = [t |-> "record", kind |-> "current_session", id |-> "s1"]
  /\ "controller.code.driver" \in DOMAIN settings
  /\ ctrl["B"] # None /\ ctrl["A"]._code_driver = None

====
